---------------------------- MODULE Spec2Model ----------------------------
(***************************************************************************)
(* A model of the annotation engine of chinese-reader:                     *)
(*   - text_processor.py : Phrase, process_chinese_text and the           *)
(*     ThreadPoolExecutor that runs the translation calls;                 *)
(*   - dictionary.py     : ChineseDictionary.lookup / lookup_best /        *)
(*     get_pinyin;                                                         *)
(*   - resources/utils.py: _lookup_hsk_level / get_hsk_level.              *)
(*                                                                         *)
(* A Python str is a sequence of characters, a character a one-atom TLA+   *)
(* string.  TLA+ source is ASCII, so the characters are stand-ins:         *)
(*   "A", "B"  two CJK ideographs (unicodedata.category = "Lo");           *)
(*   "."       the sentence terminator U+3002 (category "Po");             *)
(*   " "       a whitespace character (category "Zs").                     *)
(***************************************************************************)
EXTENDS Integers, Sequences, FiniteSets, TLC

VARIABLES
    entries,            \* ChineseDictionary.entries: phrase -> list of entries
    hsk_vocab,          \* utils.hsk_vocab: phrase -> list of level labels
    phrases,            \* segment_chinese_text(text): the spans of the input
    pc,                 \* where process_chinese_text is
    i,                  \* index of the next span of the for loop (line 128)
    sentence_phrases,   \* texts of the phrases buffered since the last terminator
    processed_phrases,  \* the Phrase objects emitted so far
    join,               \* index of the next phrase of the join loop (line 146)
    futures,            \* the executor's work items, in submission order
    result,             \* what process_chinese_text returned
    completed,          \* history: the work items in the order they completed
    call                \* a direct call of a pure function: its name, argument, outcome

vars == <<entries, hsk_vocab, phrases, pc, i, sentence_phrases,
          processed_phrases, join, futures, result, completed, call>>

----------------------------------------------------------------------------
(* Bounds of the model *)

MaxSpans == 4

(* the longest phrase passed to get_pinyin and get_hsk_level *)
MaxPhraseLen == 3

(* the longest key of a drawn dictionary or HSK table *)
MaxKeyLen == 2

(* the most keys of a drawn dictionary *)
MaxKeys == 3

(* the most keys of a drawn HSK table *)
MaxVocab == 2

(* the longest syllable passed to add_tone *)
MaxSyllableLen == 3

(* the most lines of a drawn dictionary file *)
MaxLines == 3

(* ThreadPoolExecutor(max_workers=3) *)
max_workers == 3

----------------------------------------------------------------------------
(* Characters and strings *)

Terminator == <<".">>

Whitespace == {" "}

IdeographChars == {"A", "B"}

category(char) ==
    IF char \in IdeographChars THEN "Lo"
    ELSE IF char \in Whitespace THEN "Zs"
    ELSE "Po"

is_chinese_ideograph(char) == category(char) = "Lo"

(* all(is_chinese_ideograph(w) for w in text): true of the empty string *)
AllIdeographs(text) == \A k \in 1..Len(text) : is_chinese_ideograph(text[k])

RECURSIVE Concat(_)
(* "".join(list) *)
Concat(list) ==
    IF list = <<>> THEN <<>> ELSE Head(list) \o Concat(Tail(list))

RECURSIVE JoinWith(_, _)
(* sep.join(list) *)
JoinWith(sep, list) ==
    IF list = <<>> THEN <<>>
    ELSE IF Len(list) = 1 THEN list[1]
    ELSE list[1] \o sep \o JoinWith(sep, Tail(list))

(* str.strip(): leading and trailing whitespace removed *)
Strip(s) ==
    LET keep == {k \in 1..Len(s) : s[k] \notin Whitespace}
    IN  IF keep = {} THEN <<>>
        ELSE LET lo == CHOOSE k \in keep : \A m \in keep : k <= m
                 hi == CHOOSE k \in keep : \A m \in keep : k >= m
             IN  SubSeq(s, lo, hi)

(* x in list *)
Contains(list, x) == \E k \in 1..Len(list) : list[k] = x

----------------------------------------------------------------------------
(* Values.  A field of a Phrase holds values of several Python types; one  *)
(* record shape carries them all, with the type in `kind`.                 *)

Str(s) == [kind |-> "str", val |-> s, h |-> 0]

(* the 1-tuple (s,) *)
Tuple1(s) == [kind |-> "tuple", val |-> s, h |-> 0]

(* a concurrent.futures.Future, named by its place in `futures` *)
FutureOf(h) == [kind |-> "future", val |-> <<>>, h |-> h]

NoneValue == [kind |-> "None", val |-> <<>>, h |-> 0]

(* a list, or None, as a field value *)
ListValue(list) == [kind |-> "list", val |-> list, h |-> 0]

(* Optional[...] as a function result: None, or a value *)
None == [some |-> FALSE, val |-> <<>>]

Some(v) == [some |-> TRUE, val |-> v]

NA == <<"N", "/", "A">>

----------------------------------------------------------------------------
(* dictionary.py *)

(* ChineseDictionary.lookup: self.entries.get(phrase) *)
lookup(idx, phrase) ==
    IF phrase \in DOMAIN idx THEN Some(idx[phrase]) ELSE None

(* ChineseDictionary.lookup_best: the first match, or None *)
lookup_best(idx, phrase) ==
    LET matches == lookup(idx, phrase)
    IN  IF matches.some /\ matches.val # <<>> THEN Some(matches.val[1]) ELSE None

RECURSIVE get_pinyin(_, _)
RECURSIVE PinyinScan(_, _, _)

(* The mutant of PinyinScan: a scan that stops at the longest prefix with  *)
(* an entry, whether or not its remainder resolves.                        *)
PinyinScanGreedy(idx, phrase, end_index) ==
    IF end_index = 0 THEN None
    ELSE LET entry == lookup_best(idx, SubSeq(phrase, 1, end_index))
         IN  IF entry.some
             THEN LET recursive_pinyin ==
                          get_pinyin(idx, SubSeq(phrase, end_index + 1, Len(phrase)))
                  IN  IF recursive_pinyin.some
                      THEN Some(entry.val.pinyin \o <<" ">> \o recursive_pinyin.val)
                      ELSE None
             ELSE PinyinScan(idx, phrase, end_index - 1)

(* get_pinyin's loop `for end_index in range(len(phrase), 0, -1)`, from    *)
(* end_index downwards: lines 246-258.                                     *)
PinyinScan(idx, phrase, end_index) ==
    IF end_index = 0 THEN None
    ELSE LET entry == lookup_best(idx, SubSeq(phrase, 1, end_index))
         IN  IF entry.some
             THEN LET recursive_pinyin ==
                          get_pinyin(idx, SubSeq(phrase, end_index + 1, Len(phrase)))
                  IN  IF recursive_pinyin.some
                      THEN Some(entry.val.pinyin \o <<" ">> \o recursive_pinyin.val)
                      ELSE PinyinScan(idx, phrase, end_index - 1)
             ELSE PinyinScan(idx, phrase, end_index - 1)

(* The mutant of get_pinyin: the empty string where no split resolves.     *)
get_pinyin_or_empty(idx, phrase) ==
    IF phrase = <<>> THEN Some(<<>>)
    ELSE LET scanned == PinyinScan(idx, phrase, Len(phrase))
         IN  IF scanned.some THEN scanned ELSE Some(<<>>)

(* ChineseDictionary.get_pinyin *)
get_pinyin(idx, phrase) ==
    IF phrase = <<>> THEN Some(<<>>) ELSE PinyinScan(idx, phrase, Len(phrase))

(* An entry as _load_dictionary builds it (lines 84-91) *)
Entry(traditional, simplified, pinyin_raw, pinyin, definition) ==
    [text |-> simplified, traditional |-> traditional, simplified |-> simplified,
     pinyin |-> pinyin, pinyin_raw |-> pinyin_raw, definition |-> definition]

----------------------------------------------------------------------------
(* resources/utils.py *)

Digits == {"0", "1", "2", "3", "4", "5", "6", "7", "8", "9"}

DigitValue(c) ==
    CASE c = "0" -> 0 [] c = "1" -> 1 [] c = "2" -> 2 [] c = "3" -> 3
      [] c = "4" -> 4 [] c = "5" -> 5 [] c = "6" -> 6 [] c = "7" -> 7
      [] c = "8" -> 8 [] c = "9" -> 9

RECURSIVE Filter(_, _)
(* re.sub(r"[^0-9+]", "", label): the characters of `keep` that label has *)
Filter(label, keep) ==
    IF label = <<>> THEN <<>>
    ELSE (IF Head(label) \in keep THEN <<Head(label)>> ELSE <<>>)
         \o Filter(Tail(label), keep)

(* _lookup_hsk_level: the digits and "+" of the entry's last label, or None *)
lookup_hsk_level(vocab, phrase) ==
    IF phrase \in DOMAIN vocab
    THEN LET lvl == vocab[phrase]
         IN  Some(Filter(lvl[Len(lvl)], Digits \cup {"+"}))
    ELSE None

RECURSIVE RStripPlus(_)
(* s.rstrip("+") *)
RStripPlus(s) ==
    IF s # <<>> /\ s[Len(s)] = "+" THEN RStripPlus(SubSeq(s, 1, Len(s) - 1)) ELSE s

(* int(t) of a string of digits and "+": a ValueError unless t is one or   *)
(* more digits after at most one leading "+".                              *)
IntDigits(t) == IF t # <<>> /\ t[1] = "+" THEN Tail(t) ELSE t

IntValid(t) ==
    LET d == IntDigits(t)
    IN  d # <<>> /\ \A k \in 1..Len(d) : d[k] \in Digits

RECURSIVE IntOfDigits(_)
IntOfDigits(d) ==
    IF d = <<>> THEN 0
    ELSE 10 * IntOfDigits(SubSeq(d, 1, Len(d) - 1)) + DigitValue(d[Len(d)])

(* the key of get_hsk_level's max: lines 84-86 *)
LevelKeyValid(s) == ~s.some \/ IntValid(RStripPlus(s.val))

LevelKey(s) ==
    IF ~s.some THEN <<-1, 0>>
    ELSE <<IntOfDigits(IntDigits(RStripPlus(s.val))),
           IF s.val # <<>> /\ s.val[Len(s.val)] = "+" THEN 1 ELSE 0>>

(* tuple comparison *)
KeyLeq(a, b) == a[1] < b[1] \/ (a[1] = b[1] /\ a[2] <= b[2])

Raised == [kind |-> "raise", val |-> <<>>, h |-> 0]

(* an Optional[str] as a value *)
ValueOf(opt) == IF opt.some THEN Str(opt.val) ELSE NoneValue

(* the contiguous substrings phrase[i:j] of line 76-78 *)
Substrings(phrase) ==
    {SubSeq(phrase, a, b) : a \in 1..Len(phrase), b \in 1..Len(phrase)} \ {<<>>}

(* get_hsk_level after the direct lookup failed (lines 76-89): every       *)
(* outcome the call can have.  max() of an empty list raises ValueError,   *)
(* so does int() in the key; among several elements with the greatest key  *)
(* max() returns the first in the iteration order of a set, which is any.  *)
HskFallback(vocab, phrase) ==
    LET lvls == {lookup_hsk_level(vocab, s) : s \in Substrings(phrase)}
    IN  IF lvls = {} \/ \E s \in lvls : ~LevelKeyValid(s) THEN {Raised}
        ELSE {ValueOf(s) : s \in {m \in lvls : \A o \in lvls : KeyLeq(LevelKey(o), LevelKey(m))}}

(* get_hsk_level: the set of its outcomes *)
get_hsk_level(vocab, phrase) ==
    LET lvl == lookup_hsk_level(vocab, phrase)
    IN  IF lvl.some THEN {Str(lvl.val)} ELSE HskFallback(vocab, phrase)

----------------------------------------------------------------------------
(* dictionary.py: _format_pinyin.  The characters of pinyin are lower-case *)
(* letters, digits and stand-ins: "uu" is the letter u with diaeresis,     *)
(* "E" an upper-case vowel, and "a_1" .. "a_4" are the letter a with the   *)
(* mark of tone 1 .. 4, likewise for the other vowels.                     *)

(* the keys of tone_marks in the order add_tone scans them: line 147 *)
VowelPriority == <<"a", "e", "o", "i", "u", "uu">>

(* tone_marks: lines 126-133 *)
tone_marks(vowel) ==
    CASE vowel = "a" -> <<"a_1", "a_2", "a_3", "a_4", "a">>
      [] vowel = "e" -> <<"e_1", "e_2", "e_3", "e_4", "e">>
      [] vowel = "i" -> <<"i_1", "i_2", "i_3", "i_4", "i">>
      [] vowel = "o" -> <<"o_1", "o_2", "o_3", "o_4", "o">>
      [] vowel = "u" -> <<"u_1", "u_2", "u_3", "u_4", "u">>
      [] vowel = "uu" -> <<"uu_1", "uu_2", "uu_3", "uu_4", "uu">>

(* s.index(c): the first place of c in s, 0 if there is none *)
IndexOf(s, c) ==
    LET at == {k \in 1..Len(s) : s[k] = c}
    IN  IF at = {} THEN 0 ELSE CHOOSE k \in at : \A m \in at : k <= m

(* re.search(r"(\d)", syllable): the place of the first digit, 0 if none *)
FirstDigit(syllable) ==
    LET at == {k \in 1..Len(syllable) : syllable[k] \in Digits}
    IN  IF at = {} THEN 0 ELSE CHOOSE k \in at : \A m \in at : k <= m

(* The mutant of StripDigits: only the first digit is removed.             *)
StripFirstDigit(syllable) ==
    LET d == CHOOSE k \in 0..Len(syllable) :
                 /\ k # 0 => syllable[k] \in Digits
                 /\ \A m \in 1..Len(syllable) : syllable[m] \in Digits => k # 0 /\ k <= m
    IN  IF d = 0 THEN syllable
        ELSE SubSeq(syllable, 1, d - 1) \o SubSeq(syllable, d + 1, Len(syllable))

(* re.sub(r"\d", "", syllable) *)
StripDigits(syllable) == SelectSeq(syllable, LAMBDA c : c \notin Digits)

(* list[n] of Python for a list of five: n = -1 is the last element, n > 4 *)
(* an IndexError                                                           *)
MarkAt(marks, tone_num) ==
    IF tone_num = -1 THEN Str(<<marks[5]>>)
    ELSE IF tone_num <= 4 THEN Str(<<marks[tone_num + 1]>>)
    ELSE Raised

RECURSIVE ToneScan(_, _, _)

(* add_tone's loop over the vowels, from the v-th on: lines 147-159 *)
ToneScan(syllable_no_tone, tone_num, v) ==
    IF v > Len(VowelPriority)
    THEN Str(syllable_no_tone)
    ELSE LET vowel == VowelPriority[v]
             idx == IndexOf(syllable_no_tone, vowel)
         IN  IF idx # 0
             THEN LET new_vowel == MarkAt(tone_marks(vowel), tone_num)
                  IN  IF new_vowel = Raised THEN Raised
                      ELSE Str(SubSeq(syllable_no_tone, 1, idx - 1) \o new_vowel.val
                               \o SubSeq(syllable_no_tone, idx + 1, Len(syllable_no_tone)))
             ELSE ToneScan(syllable_no_tone, tone_num, v + 1)

(* add_tone: lines 135-159; the result, or the IndexError of line 152 *)
add_tone(syllable) ==
    IF FirstDigit(syllable) = 0 THEN Str(syllable)
    ELSE ToneScan(StripDigits(syllable),
                  DigitValue(syllable[FirstDigit(syllable)]) - 1, 1)

RECURSIVE Split(_)
(* str.split(): the runs of characters that are not whitespace *)
Split(s) ==
    IF s = <<>> THEN <<>>
    ELSE IF s[1] \in Whitespace THEN Split(Tail(s))
    ELSE LET stops == {k \in 1..Len(s) : s[k] \in Whitespace}
             stop == IF stops = {} THEN Len(s) + 1
                     ELSE CHOOSE k \in stops : \A m \in stops : k <= m
         IN  <<SubSeq(s, 1, stop - 1)>> \o Split(SubSeq(s, stop, Len(s)))

(* _format_pinyin: lines 161-164 *)
format_pinyin(pinyin_raw) ==
    LET syllables == Split(pinyin_raw)
        formatted == [k \in 1..Len(syllables) |-> add_tone(syllables[k])]
    IN  IF \E k \in 1..Len(formatted) : formatted[k] = Raised THEN Raised
        ELSE Str(JoinWith(<<" ">>, [k \in 1..Len(formatted) |-> formatted[k].val]))

----------------------------------------------------------------------------
(* text_processor.py: the executor *)

(* hf_translate(text): the gloss the translation collaborator returns for  *)
(* text, a string that names the text it translates.                       *)
hf_translate(text) == <<"T", "(">> \o text \o <<")">>

(* executor.submit(hf_translate, text): the work item joins the queue and  *)
(* the call returns its Future at once.                                    *)
submit(fs, text) ==
    Append(fs, [text |-> text, state |-> "queued", result |-> <<>>, joined |-> FALSE])

(* the work items a worker thread is executing: a call that never          *)
(* completes ("hung") keeps its worker                                     *)
Executing(fs) == {h \in 1..Len(fs) : fs[h].state \in {"running", "hung"}}

(* The mutant of WorkerFree: a pool that starts a thread per work item.    *)
WorkerFreeUnbounded(fs) == TRUE

(* a worker thread is idle, or can still be created: at most max_workers   *)
(* threads exist                                                           *)
WorkerFree(fs) == Cardinality(Executing(fs)) < max_workers

(* the work item at the head of the executor's FIFO queue *)
QueueHead(fs, h) ==
    /\ fs[h].state = "queued"
    /\ \A k \in 1..(h - 1) : fs[k].state # "queued"

(* The mutant of FutureResult: the result of the work item that completed, *)
(* whichever it is, lowest handle first.                                   *)
FutureResultAnyDone(fs, h) ==
    LET done == {k \in 1..Len(fs) : fs[k].state = "done"}
    IN  fs[CHOOSE k \in done : \A m \in done : k <= m].result

(* Future.result() of a work item that completed *)
FutureResult(fs, h) == fs[h].result

(* The mutant of FutureSucceeded: an exception of the call is swallowed.   *)
FutureSucceededOrFailed(f) == f.state \in {"done", "failed"}

(* Future.result() returns a value: the call returned *)
FutureSucceeded(f) == f.state = "done"

(* The mutant of FutureSettled: result() gives up on a call that hangs.    *)
FutureSettledOrHung(f) == f.state \in {"done", "failed", "hung"}

(* Future.result() returns or raises: the call has completed *)
FutureSettled(f) == f.state \in {"done", "failed"}

----------------------------------------------------------------------------
(* text_processor.py: Phrase *)

RECURSIVE Dedup(_, _, _)
(* lines 65-71: the non-empty values of `field` of the entries, in entry   *)
(* order, each once; acc is the list built so far                          *)
Dedup(list, field, acc) ==
    IF list = <<>> THEN acc
    ELSE LET v == Head(list)[field]
         IN  Dedup(Tail(list), field,
                   IF v # <<>> /\ ~Contains(acc, v) THEN Append(acc, v) ELSE acc)

NotFound == <<"[Not found]">>

(* lines 72-75: `(sep.join(all) if all else "[Not found]",)`, where the    *)
(* trailing comma makes the value a 1-tuple                                *)
Aggregate(sep, all) == Tuple1(IF all # <<>> THEN JoinWith(sep, all) ELSE NotFound)

(* whether populate submits a translation request (lines 56 and 78) *)
Submits(idx, text, is_sentence_end) ==
    \/ is_sentence_end
    \/ /\ AllIdeographs(text)
       /\ LET found == lookup(idx, text) IN ~(found.some /\ found.val # <<>>)

(* whether populate reaches get_hsk_level (line 81) *)
CallsHsk(text, is_sentence_end) == ~is_sentence_end /\ AllIdeographs(text)

(* the outcomes of get_hsk_level in populate; the field's default when     *)
(* populate returns before line 81                                         *)
PopulateLevels(vocab, text, is_sentence_end) ==
    IF CallsHsk(text, is_sentence_end) THEN get_hsk_level(vocab, text) ELSE {Str(NA)}

(* Phrase(text=text, is_sentence_end=...) after __post_init__ -> populate; *)
(* h is the Future a submit returns, lvl the outcome of get_hsk_level.     *)
Phrase(idx, text, is_sentence_end, h, lvl) ==
    LET default == [text |-> text, pinyin |-> Str(<<>>), definition |-> Str(<<>>),
                    hsk_level |-> Str(NA), all_entries |-> ListValue(<<>>),
                    is_sentence_end |-> is_sentence_end]
        found == lookup(idx, text)
    IN  IF is_sentence_end THEN [default EXCEPT !.definition = FutureOf(h)]
        ELSE IF ~AllIdeographs(text) THEN default
        ELSE IF found.some /\ found.val # <<>>
        THEN [default EXCEPT
                 !.pinyin = Aggregate(<<" ", "/", " ">>, Dedup(found.val, "pinyin", <<>>)),
                 !.definition = Aggregate(<<" ", "|", " ">>, Dedup(found.val, "definition", <<>>)),
                 !.all_entries = ListValue(found.val),
                 !.hsk_level = lvl]
        ELSE [default EXCEPT
                 !.pinyin = ValueOf(get_pinyin(idx, text)),
                 !.definition = FutureOf(h),
                 !.all_entries = IF found.some THEN ListValue(found.val) ELSE NoneValue,
                 !.hsk_level = lvl]

(* The mutant of full_sentence: the joined text, not stripped.             *)
full_sentence_unstripped(buffer) == Concat(buffer)

(* lines 134-135: the texts of the buffered phrases joined, then stripped  *)
full_sentence(buffer) == Strip(Concat(buffer))

(* The mutant of EndsSentence: every terminator ends a sentence.           *)
EndsSentenceAlways(phrase_text, sentence) == phrase_text = Terminator

(* lines 131 and 136: the span is the terminator and the sentence it ends  *)
(* is not empty                                                            *)
EndsSentence(phrase_text, sentence) == phrase_text = Terminator /\ sentence # <<>>

(* The mutant of Emitted: a phrase of whitespace only is not emitted.      *)
EmittedUnlessBlank(processed, phrase) ==
    IF Strip(phrase.text) = <<>> THEN processed ELSE Append(processed, phrase)

(* line 144: processed_phrases.append(phrase) *)
Emitted(processed, phrase) == Append(processed, phrase)

(* The mutant of AfterSpan: the phrases are resolved after the first span. *)
AfterSpanJoins(k, n) == "join"

(* where the orchestrator is after the k-th of n spans: the loop of line   *)
(* 128 goes on to the next span, and ends into the loop of line 146        *)
AfterSpan(k, n) == IF k = n THEN "join" ELSE "loop"

(* The mutant of NeedsJoin: only sentence phrases are resolved.            *)
NeedsJoinSentenceOnly(p) == p.definition.kind = "future" /\ p.is_sentence_end

(* resolve_translation's test: isinstance(self.definition, Future) *)
NeedsJoin(p) == p.definition.kind = "future"

(* Phrase.to_dict *)
to_dict(p) ==
    LET d == [text |-> p.text, pinyin |-> p.pinyin, definition |-> p.definition,
              hsk_level |-> p.hsk_level, all_entries |-> p.all_entries]
    IN  IF p.is_sentence_end THEN d @@ [is_sentence_end |-> TRUE] ELSE d

----------------------------------------------------------------------------
(* The inputs of process_chinese_text *)

SpanAlphabet == {<<"A">>, <<"B">>, <<"A", "B">>, Terminator, <<" ">>}

RECURSIVE SeqsUpTo(_, _)
(* the sequences over S of length at most n *)
SeqsUpTo(S, n) ==
    IF n = 0 THEN {<<>>}
    ELSE LET shorter == SeqsUpTo(S, n - 1)
         IN  shorter \cup {Append(q, x) : q \in shorter, x \in S}

(* The dictionary of the pipeline: "A" has three entries, two of them with *)
(* the same pinyin and two with the same definition; "B" and "AB" have none. *)
CedictFixture ==
    [k \in {<<"A">>} |->
        << Entry(k, k, <<"a", "1">>, format_pinyin(<<"a", "1">>).val, <<"d1">>),
           Entry(k, k, <<"a", "1">>, format_pinyin(<<"a", "1">>).val, <<"d2">>),
           Entry(k, k, <<"a", "2">>, format_pinyin(<<"a", "2">>).val, <<"d1">>) >>]

(* The HSK table of the pipeline: "A" has the labels "n-1", "o-3"; the only *)
(* label of "B" has no digit; "AB" is not in the table.                    *)
HskFixture ==
    [k \in {<<"A">>, <<"B">>} |->
        IF k = <<"A">> THEN << <<"n", "-", "1">>, <<"o", "-", "3">> >>
        ELSE << <<"x">> >>]

NoCall == [fn |-> "none", arg |-> <<>>, done |-> FALSE, ret |-> NoneValue]

Init ==
    /\ entries = CedictFixture
    /\ hsk_vocab = HskFixture
    /\ phrases \in SeqsUpTo(SpanAlphabet, MaxSpans)
    /\ pc = "loop"
    /\ i = 1
    /\ sentence_phrases = <<>>
    /\ processed_phrases = <<>>
    /\ join = 1
    /\ futures = <<>>
    /\ result = <<>>
    /\ completed = <<>>
    /\ call = NoCall

----------------------------------------------------------------------------
(* process_chinese_text *)

(* lines 118-119: `if not text`: the empty text has no spans *)
EmptyText ==
    /\ pc = "loop"
    /\ Concat(phrases) = <<>>
    /\ pc' = "returned"
    /\ result' = << [phrases |-> <<>>, original_text |-> Concat(phrases)] >>
    /\ UNCHANGED <<entries, hsk_vocab, phrases, i, sentence_phrases,
                   processed_phrases, join, futures, completed, call>>

(* One iteration of the loop of lines 128-144.  The Phrase of the span is  *)
(* constructed first (line 129); at a terminator whose buffered text is    *)
(* not blank a second Phrase, the sentence, replaces it (line 137).  An    *)
(* exception of get_hsk_level leaves the call.                             *)
ConsumeSpan ==
    /\ pc = "loop"
    /\ Concat(phrases) # <<>>
    /\ i <= Len(phrases)
    /\ LET phrase_text == phrases[i]
           sentence == full_sentence(sentence_phrases)
           is_end == EndsSentence(phrase_text, sentence)
       IN  \E lvl \in PopulateLevels(hsk_vocab, phrase_text, FALSE) :
             IF lvl = Raised
             THEN /\ pc' = "failed"
                  /\ UNCHANGED <<i, sentence_phrases, processed_phrases, futures>>
             ELSE LET fs1 == IF Submits(entries, phrase_text, FALSE)
                             THEN submit(futures, phrase_text) ELSE futures
                      first == Phrase(entries, phrase_text, FALSE, Len(fs1), lvl)
                      fs2 == IF is_end THEN submit(fs1, sentence) ELSE fs1
                      phrase == IF is_end
                                THEN Phrase(entries, sentence, TRUE, Len(fs2), Str(NA))
                                ELSE first
                  IN  /\ futures' = fs2
                      /\ sentence_phrases' =
                            IF phrase_text = Terminator THEN <<>>
                            ELSE Append(sentence_phrases, first.text)
                      /\ processed_phrases' = Emitted(processed_phrases, phrase)
                      /\ i' = i + 1
                      /\ pc' = AfterSpan(i, Len(phrases))
    /\ UNCHANGED <<entries, hsk_vocab, phrases, join, result, completed, call>>

(* One iteration of the loop of lines 146-147: resolve_translation of the  *)
(* next phrase.  Future.result() blocks until the work item completed; it  *)
(* returns the result or raises the exception of the call.                 *)
JoinPhrase ==
    /\ pc = "join"
    /\ join <= Len(processed_phrases)
    /\ LET p == processed_phrases[join]
           h == p.definition.h
       IN  IF NeedsJoin(p)
           THEN /\ FutureSettled(futures[h])
                /\ futures' = [futures EXCEPT ![h].joined = TRUE]
                /\ IF FutureSucceeded(futures[h])
                   THEN /\ processed_phrases' =
                              [processed_phrases EXCEPT
                                  ![join].definition = Str(FutureResult(futures, h))]
                        /\ join' = join + 1
                        /\ pc' = pc
                   ELSE /\ pc' = "failed"
                        /\ UNCHANGED <<processed_phrases, join>>
           ELSE /\ join' = join + 1
                /\ UNCHANGED <<processed_phrases, futures, pc>>
    /\ UNCHANGED <<entries, hsk_vocab, phrases, i, sentence_phrases, result,
                   completed, call>>

(* lines 149-152 *)
Return ==
    /\ pc = "join"
    /\ join > Len(processed_phrases)
    /\ result' = << [phrases |-> [k \in 1..Len(processed_phrases) |->
                                     to_dict(processed_phrases[k])],
                     original_text |-> Concat(phrases)] >>
    /\ pc' = "returned"
    /\ UNCHANGED <<entries, hsk_vocab, phrases, i, sentence_phrases,
                   processed_phrases, join, futures, completed, call>>

----------------------------------------------------------------------------
(* The worker threads of the executor and the translation collaborator *)

Settle(h, state, res) ==
    /\ h \in 1..Len(futures)
    /\ futures[h].state = "running"
    /\ futures' = [futures EXCEPT ![h].state = state, ![h].result = res]
    /\ completed' = IF state = "hung" THEN completed ELSE Append(completed, h)
    /\ UNCHANGED <<entries, hsk_vocab, phrases, pc, i, sentence_phrases,
                   processed_phrases, join, result, call>>

(* a worker takes the work item at the head of the queue *)
WorkerStart ==
    /\ \E h \in 1..Len(futures) :
          /\ QueueHead(futures, h)
          /\ WorkerFree(futures)
          /\ futures' = [futures EXCEPT ![h].state = "running"]
    /\ UNCHANGED <<entries, hsk_vocab, phrases, pc, i, sentence_phrases,
                   processed_phrases, join, result, completed, call>>

(* hf_translate returns the gloss *)
TranslateReturns == \E h \in 1..Len(futures) :
    Settle(h, "done", hf_translate(futures[h].text))

(* hf_translate raises: a network or service error *)
TranslateRaises == \E h \in 1..Len(futures) : Settle(h, "failed", <<>>)

(* hf_translate never returns: the collaborator does not answer and there  *)
(* is no timeout.  The work item stays with its worker for good.           *)
TranslateHangs == \E h \in 1..Len(futures) : Settle(h, "hung", <<>>)

Next ==
    \/ EmptyText
    \/ ConsumeSpan
    \/ JoinPhrase
    \/ Return
    \/ WorkerStart
    \/ TranslateReturns
    \/ TranslateRaises
    \/ TranslateHangs

Spec == Init /\ [][Next]_vars

----------------------------------------------------------------------------
(* Direct calls of get_pinyin, over drawn dictionaries *)

(* the non-empty strings of ideographs of length at most n *)
Words(n) == SeqsUpTo(IdeographChars, n) \ {<<>>}

(* the subsets of S with at most n elements *)
SubsetsUpTo(S, n) == {K \in SUBSET S : Cardinality(K) <= n}

RECURSIVE Lower(_)
(* the pinyin of a word of the drawn dictionaries: one syllable that names *)
(* the word, so that two segmentations of a phrase never render alike      *)
Lower(word) ==
    IF word = <<>> THEN <<>>
    ELSE <<IF Head(word) = "A" THEN "a" ELSE "b">> \o Lower(Tail(word))

(* the entries of a word of a drawn dictionary: two lines of the file, the *)
(* first with the word's own syllable (tone 5, which _format_pinyin strips) *)
WordEntries(word) ==
    << Entry(word, word, Lower(word) \o <<"5">>, Lower(word), <<"d1">>),
       Entry(word, word, <<"x", "5">>, <<"x">>, <<"d2">>) >>

Dictionaries ==
    {[k \in K |-> WordEntries(k)] : K \in SubsetsUpTo(Words(MaxKeyLen), MaxKeys)}

EmptyTable == [k \in {} |-> <<>>]

Idle ==
    /\ phrases = <<>>
    /\ pc = "idle"
    /\ i = 1
    /\ sentence_phrases = <<>>
    /\ processed_phrases = <<>>
    /\ join = 1
    /\ futures = <<>>
    /\ result = <<>>
    /\ completed = <<>>

InitPinyin ==
    /\ entries \in Dictionaries
    /\ hsk_vocab = EmptyTable
    /\ Idle
    /\ \E phrase \in SeqsUpTo(IdeographChars, MaxPhraseLen) :
          call = [fn |-> "get_pinyin", arg |-> phrase, done |-> FALSE, ret |-> NoneValue]

CallGetPinyin ==
    /\ call.fn = "get_pinyin"
    /\ ~call.done
    /\ call' = [call EXCEPT !.done = TRUE,
                            !.ret = ValueOf(get_pinyin(entries, call.arg))]
    /\ UNCHANGED <<entries, hsk_vocab, phrases, pc, i, sentence_phrases,
                   processed_phrases, join, futures, result, completed>>

NextPinyin == CallGetPinyin

SpecPinyin == InitPinyin /\ [][NextPinyin]_vars

----------------------------------------------------------------------------
(* Direct calls of get_hsk_level, over drawn HSK tables *)

(* the `level` lists of the drawn tables: their last labels read "3",      *)
(* "7", "7+" and, for a label with no digit, ""                            *)
LevelLists ==
    { << <<"n", "-", "1">>, <<"o", "-", "3">> >>,
      << <<"n", "-", "7">> >>,
      << <<"n", "-", "7", "+">> >>,
      << <<"x">> >> }

HskTables ==
    UNION {[K -> LevelLists] : K \in SubsetsUpTo(Words(MaxKeyLen), MaxVocab)}

InitHsk ==
    /\ entries = EmptyTable
    /\ hsk_vocab \in HskTables
    /\ Idle
    /\ \E phrase \in SeqsUpTo(IdeographChars, MaxPhraseLen) :
          call = [fn |-> "get_hsk_level", arg |-> phrase, done |-> FALSE,
                  ret |-> NoneValue]

CallGetHskLevel ==
    /\ call.fn = "get_hsk_level"
    /\ ~call.done
    /\ \E outcome \in get_hsk_level(hsk_vocab, call.arg) :
          call' = [call EXCEPT !.done = TRUE, !.ret = outcome]
    /\ UNCHANGED <<entries, hsk_vocab, phrases, pc, i, sentence_phrases,
                   processed_phrases, join, futures, result, completed>>

NextHsk == CallGetHskLevel

SpecHsk == InitHsk /\ [][NextHsk]_vars

----------------------------------------------------------------------------
(* Direct calls of add_tone, over drawn syllables *)

(* the characters of the drawn syllables: the six vowels of the inventory, *)
(* two consonants, an upper-case vowel and four digits                     *)
SyllableChars ==
    {"a", "e", "o", "i", "u", "uu", "m", "r", "E", "0", "2", "5", "9"}

InitTone ==
    /\ entries = EmptyTable
    /\ hsk_vocab = EmptyTable
    /\ Idle
    /\ \E syllable \in SeqsUpTo(SyllableChars, MaxSyllableLen) :
          call = [fn |-> "add_tone", arg |-> syllable, done |-> FALSE, ret |-> NoneValue]

CallAddTone ==
    /\ call.fn = "add_tone"
    /\ ~call.done
    /\ call' = [call EXCEPT !.done = TRUE, !.ret = add_tone(call.arg)]
    /\ UNCHANGED <<entries, hsk_vocab, phrases, pc, i, sentence_phrases,
                   processed_phrases, join, futures, result, completed>>

NextTone == CallAddTone

SpecTone == InitTone /\ [][NextTone]_vars

----------------------------------------------------------------------------
(* dictionary.py: _load_dictionary over drawn files *)

(* the characters of [a-zA-Z] and u-diaeresis among those of the lines *)
Letters == {"a", "b", "d", "e", "i", "m", "o", "r", "u", "uu", "x", "E"}

(* [a-z...]+\d+ : letters, then digits, at least one of each *)
IsNumbered(token) ==
    \E j \in 1..(Len(token) - 1) :
        /\ \A k \in 1..j : token[k] \in Letters
        /\ \A k \in (j + 1)..Len(token) : token[k] \in Digits

(* pinyin_pattern of line 178 matched at the head of definition: the place *)
(* of the closing bracket, 0 if the pattern does not match there           *)
GroupEnd(definition) ==
    IF definition = <<>> \/ definition[1] # "[" THEN 0
    ELSE LET close == IndexOf(definition, "]")
         IN  IF close < 3 THEN 0
             ELSE LET inner == SubSeq(definition, 2, close - 1)
                      syllables == Split(inner)
                  IN  IF /\ inner[1] \notin Whitespace
                         /\ inner[Len(inner)] \notin Whitespace
                         /\ \A k \in 1..Len(syllables) : IsNumbered(syllables[k])
                      THEN close ELSE 0

RECURSIVE format_definition_pinyin(_)
(* _format_definition_pinyin: re.sub of every bracketed group, left to     *)
(* right, by its _format_pinyin; the result, or the IndexError of add_tone *)
format_definition_pinyin(definition) ==
    IF definition = <<>> THEN Str(<<>>)
    ELSE LET close == GroupEnd(definition)
             head == IF close = 0 THEN Str(<<definition[1]>>)
                     ELSE format_pinyin(SubSeq(definition, 2, close - 1))
             rest == format_definition_pinyin(
                         SubSeq(definition, IF close = 0 THEN 2 ELSE close + 1,
                                Len(definition)))
         IN  IF head = Raised \/ rest = Raised THEN Raised
             ELSE Str(head.val \o rest.val)

(* \s+ over line[a..b] *)
AllWhitespace(line, a, b) ==
    a <= b /\ b <= Len(line) /\ \A k \in a..b : line[k] \in Whitespace

(* /(.+?)/$ from place k *)
MatchDefinition(line, k) ==
    k + 2 <= Len(line) /\ line[k] = "/" /\ line[Len(line)] = "/"

(* \[(.+?)\]\s+/(.+?)/$ from place k, the group ending at p and the        *)
(* whitespace at q                                                         *)
MatchPinyin(line, k, p, q) ==
    /\ k < p /\ p + 1 < q /\ q < Len(line)
    /\ line[k] = "["
    /\ line[p + 1] = "]"
    /\ AllWhitespace(line, p + 2, q)
    /\ MatchDefinition(line, q + 1)

(* the rest of the pattern from its third group on matches from place k *)
MatchFromPinyin(line, k) ==
    \E p \in 1..Len(line), q \in 1..Len(line) : MatchPinyin(line, k, p, q)

(* (.+?)\s+ and the rest match from place k, the group ending at p and the *)
(* whitespace at q                                                         *)
MatchSimplified(line, k, p, q) ==
    k <= p /\ AllWhitespace(line, p + 1, q) /\ MatchFromPinyin(line, q + 1)

(* the rest of the pattern from its second group on matches from place k *)
MatchFromSimplified(line, k) ==
    \E p \in 1..Len(line), q \in 1..Len(line) : MatchSimplified(line, k, p, q)

(* \s+ and the rest match after the first group, the whitespace at q *)
MatchTraditional(line, p, q) ==
    AllWhitespace(line, p + 1, q) /\ MatchFromSimplified(line, q + 1)

Least(S) == CHOOSE k \in S : \A m \in S : k <= m

Greatest(S) == CHOOSE k \in S : \A m \in S : k >= m

(* re.match of line 79: the four groups of the match the engine finds, the *)
(* lazy groups as short and the whitespace runs as long as a match allows, *)
(* decided left to right; None if the line does not match                  *)
match_line(line) ==
    LET n == Len(line)
        P1 == {p \in 1..n : \E q \in 1..n : MatchTraditional(line, p, q)}
    IN  IF P1 = {} THEN None
        ELSE LET p1 == Least(P1)
                 q1 == Greatest({q \in 1..n : MatchTraditional(line, p1, q)})
                 p2 == Least({p \in 1..n :
                                \E q \in 1..n : MatchSimplified(line, q1 + 1, p, q)})
                 q2 == Greatest({q \in 1..n : MatchSimplified(line, q1 + 1, p2, q)})
                 p3 == Least({p \in 1..n :
                                \E q \in 1..n : MatchPinyin(line, q2 + 1, p, q)})
                 q3 == Greatest({q \in 1..n : MatchPinyin(line, q2 + 1, p3, q)})
             IN  Some([traditional |-> SubSeq(line, 1, p1),
                       simplified |-> SubSeq(line, q1 + 1, p2),
                       pinyin |-> SubSeq(line, q2 + 2, p3),
                       definition |-> SubSeq(line, q3 + 2, n - 1)])

(* self.entries[key].append(entry), the list made first if there is none *)
AppendAt(idx, key, entry) ==
    IF key \in DOMAIN idx THEN [idx EXCEPT ![key] = Append(@, entry)]
    ELSE [k \in DOMAIN idx \cup {key} |-> IF k = key THEN <<entry>> ELSE idx[k]]

(* lines 93-101: under the simplified form, and under the traditional one  *)
(* if it differs                                                           *)
IndexEntry(idx, entry) ==
    LET indexed == AppendAt(idx, entry.simplified, entry)
    IN  IF entry.traditional # entry.simplified
        THEN AppendAt(indexed, entry.traditional, entry)
        ELSE indexed

RECURSIVE load_lines(_, _)
(* the loop of lines 71-103 over the lines left to read: the index, and    *)
(* whether _format_pinyin raised, which no handler of line 108 catches     *)
load_lines(file, idx) ==
    IF file = <<>> THEN [entries |-> idx, raised |-> FALSE]
    ELSE LET line == Strip(Head(file))
         IN  IF line = <<>> \/ line[1] = "#" THEN load_lines(Tail(file), idx)
             ELSE LET match == match_line(line)
                  IN  IF ~match.some THEN load_lines(Tail(file), idx)
                      ELSE LET pinyin == format_pinyin(match.val.pinyin)
                               definition ==
                                   format_definition_pinyin(match.val.definition)
                           IN  IF pinyin = Raised \/ definition = Raised
                               THEN [entries |-> idx, raised |-> TRUE]
                               ELSE load_lines(Tail(file),
                                        IndexEntry(idx,
                                            Entry(match.val.traditional,
                                                  match.val.simplified,
                                                  match.val.pinyin, pinyin.val,
                                                  definition.val)))

(* a line TRADITIONAL SIMPLIFIED [PINYIN] /DEFINITION/ *)
Line(traditional, simplified, pinyin, definition) ==
    traditional \o <<" ">> \o simplified \o <<" ", "[">> \o pinyin
        \o <<"]", " ", "/">> \o definition \o <<"/">>

(* the lines of the drawn files: both forms alike; the forms different and *)
(* pinyin in the definition; a comment; a blank line; whitespace around    *)
(* and between the fields; no closing slash; a tone digit 9; a slash in    *)
(* the definition                                                          *)
FileLines ==
    { Line(<<"A">>, <<"A">>, <<"a", "5">>, <<"d">>),
      Line(<<"A", "B">>, <<"B">>, <<"b", "2">>, <<"[", "a", "1", "]">>),
      <<"#">> \o Line(<<"A">>, <<"A">>, <<"a", "5">>, <<"d">>),
      <<" ">>,
      <<" ", "A", " ", " ", "A", " ", "[", "x", "5", "]", " ", " ", "/", "d", "/", " ">>,
      <<"A", " ", "A", " ", "[", "a", "5", "]", " ", "/", "d">>,
      Line(<<"B">>, <<"B">>, <<"e", "9">>, <<"d">>),
      Line(<<"B">>, <<"A">>, <<"b", "4">>, <<"d", "/", "e">>) }

InitLoad ==
    /\ entries = EmptyTable
    /\ hsk_vocab = EmptyTable
    /\ Idle
    /\ \E file \in SeqsUpTo(FileLines, MaxLines) :
          call = [fn |-> "_load_dictionary", arg |-> file, done |-> FALSE,
                  ret |-> NoneValue]

CallLoadDictionary ==
    /\ call.fn = "_load_dictionary"
    /\ ~call.done
    /\ LET loaded == load_lines(call.arg, entries)
       IN  /\ entries' = loaded.entries
           /\ call' = [call EXCEPT !.done = TRUE,
                                   !.ret = IF loaded.raised THEN Raised ELSE NoneValue]
    /\ UNCHANGED <<hsk_vocab, phrases, pc, i, sentence_phrases,
                   processed_phrases, join, futures, result, completed>>

NextLoad == CallLoadDictionary

SpecLoad == InitLoad /\ [][NextLoad]_vars

----------------------------------------------------------------------------
(* What the claims speak of *)

(* the phrases of the returned structure *)
Out == result[1].phrases

Returned == pc = "returned" /\ phrases # <<>>

(* to_dict writes is_sentence_end only when it is true *)
IsSentenceEnd(d) == "is_sentence_end" \in DOMAIN d

(* the spans between the last terminator before position k and k *)
BufferAt(k) ==
    LET before == {m \in 1..(k - 1) : phrases[m] = Terminator}
        last == IF before = {} THEN 0 ELSE CHOOSE m \in before : \A o \in before : o <= m
    IN  SubSeq(phrases, last + 1, k - 1)

(* the sentence a terminator at position k ends *)
SentenceAt(k) == Strip(Concat(BufferAt(k)))

(* position k holds the sentence of a terminator *)
SentencePosition(k) == phrases[k] = Terminator /\ SentenceAt(k) # <<>>

(* the text of the phrase emitted for position k *)
TextAt(k) == IF SentencePosition(k) THEN SentenceAt(k) ELSE phrases[k]

(* a translation request is made for the phrase of position k *)
TranslatedAt(k) ==
    \/ SentencePosition(k)
    \/ AllIdeographs(phrases[k]) /\ phrases[k] \notin DOMAIN entries

(* the handle whose work item completed k-th *)
OutOfOrder == \E a, b \in 1..Len(completed) : a < b /\ completed[a] > completed[b]

----------------------------------------------------------------------------
(* C1.  Whatever the order in which the work items complete, the returned  *)
(* phrases are in span order, one per position with the text of that       *)
(* position, and the definition of a translated phrase is the translation  *)
(* of its own text.                                                        *)
C1_OrderAndOwnTranslation ==
    Returned =>
        /\ Len(Out) = Len(phrases)
        /\ \A k \in 1..Len(Out) :
              /\ Out[k].text = TextAt(k)
              /\ TranslatedAt(k) => Out[k].definition = Str(hf_translate(TextAt(k)))

(* a call returned whose translations, of different texts, completed out   *)
(* of submission order                                                     *)
C1_Witness ==
    /\ Returned
    /\ OutOfOrder
    /\ \E a, b \in 1..Len(futures) : futures[a].text # futures[b].text

(* C2, as stated.  For [A, B, ".", C] the output is [Phrase(A+B, end),     *)
(* Phrase(C)]: a span buffered before a terminator is not in the output.   *)
C2_Original ==
    Returned =>
        LET kept == {k \in 1..Len(phrases) :
                        \/ phrases[k] = Terminator
                        \/ \A m \in k..Len(phrases) : phrases[m] # Terminator}
        IN  /\ Len(Out) = Cardinality(kept)
            /\ phrases = << <<"A">>, <<"B">>, Terminator, <<"A">> >> =>
                  /\ Len(Out) = 2
                  /\ Out[1].text = <<"A", "B">> /\ IsSentenceEnd(Out[1])
                  /\ Out[2].text = <<"A">> /\ ~IsSentenceEnd(Out[2])

(* C2, amended.  The buffered spans stay in the output, each at its own    *)
(* position; the sentence phrase takes the position of the terminator:     *)
(* for [A, B, ".", C] the output is [Phrase(A), Phrase(B),                 *)
(* Phrase(A+B, end), Phrase(C)].                                           *)
C2_SentenceGrouping ==
    Returned =>
        /\ Len(Out) = Len(phrases)
        /\ \A k \in 1..Len(phrases) :
              /\ phrases[k] # Terminator =>
                    Out[k].text = phrases[k] /\ ~IsSentenceEnd(Out[k])
              /\ SentencePosition(k) =>
                    /\ Out[k].text = Strip(Concat(BufferAt(k)))
                    /\ IsSentenceEnd(Out[k])
                    /\ \A m \in 1..Len(BufferAt(k)) :
                          Out[k - Len(BufferAt(k)) + m - 1].text = BufferAt(k)[m]

(* a call returned for two spans, a terminator that ends their sentence    *)
(* and a span after it; whitespace was stripped from a sentence            *)
C2_Witness ==
    /\ Returned
    /\ \E k \in 3..(Len(phrases) - 1) :
          /\ SentencePosition(k)
          /\ Len(BufferAt(k)) = 2
          /\ SentenceAt(k) # Concat(BufferAt(k))

(* C3, as stated.  No phrase of the output has the text of the terminator. *)
C3_Original ==
    Returned => \A k \in 1..Len(Out) : Out[k].text # Terminator

(* C3, amended.  A terminator is consumed when the text buffered since the *)
(* terminator before it is not blank: the sentence phrase stands in its    *)
(* place.  A terminator with nothing or only whitespace buffered (the      *)
(* first span, after another terminator, after whitespace spans) is        *)
(* emitted as a literal phrase with the terminator as its text.            *)
C3_TerminatorConsumed ==
    Returned =>
        \A k \in 1..Len(Out) :
            phrases[k] = Terminator =>
                IF Strip(Concat(BufferAt(k))) # <<>>
                THEN IsSentenceEnd(Out[k]) /\ Out[k].text # Terminator
                ELSE Out[k] = [text |-> Terminator, pinyin |-> Str(<<>>),
                               definition |-> Str(<<>>), hsk_level |-> Str(NA),
                               all_entries |-> ListValue(<<>>)]

(* a call returned that had a terminator after whitespace only, and one    *)
(* that ended a sentence                                                   *)
C3_Witness ==
    /\ Returned
    /\ \E k, m \in 1..Len(phrases) :
          /\ phrases[k] = Terminator /\ BufferAt(k) # <<>> /\ SentenceAt(k) = <<>>
          /\ SentencePosition(m)

(* C4.  When the call returns, no definition is a pending handle and every *)
(* work item submitted during the call completed and was joined.           *)
C4_Finalized ==
    pc = "returned" =>
        /\ \A k \in 1..Len(processed_phrases) :
              /\ processed_phrases[k].definition.kind # "future"
              /\ Out[k].definition.kind # "future"
        /\ \A h \in 1..Len(futures) :
              futures[h].joined /\ futures[h].state = "done"

(* a call returned that had submitted a request for a span and one for a   *)
(* sentence                                                                *)
C4_Witness ==
    /\ Returned
    /\ \E k, m \in 1..Len(phrases) :
          /\ SentencePosition(k)
          /\ ~SentencePosition(m) /\ TranslatedAt(m)

C7_Original ==
    (i > Len(phrases) /\ \E h \in 1..Len(futures) : futures[h].state = "hung") =>
        pc \notin {"returned", "failed"}

(* C7, amended.  A call with a translation that never completes never      *)
(* returns a result.  It blocks for good once the join reaches that        *)
(* handle; it reports a failure only if it failed before that: a           *)
(* translation joined earlier failed, or consuming a span raised.          *)
C7_HangBlocks ==
    \A h \in 1..Len(futures) :
        futures[h].state = "hung" =>
            /\ pc # "returned" /\ result = <<>>
            /\ ~futures[h].joined
            /\ pc = "failed" =>
                  \/ i <= Len(phrases)
                  \/ \E e \in 1..(h - 1) : futures[e].state = "failed" /\ futures[e].joined
            /\ (pc = "join" /\ join <= Len(processed_phrases)
                  /\ processed_phrases[join].definition = FutureOf(h)) =>
                  ~ENABLED (JoinPhrase \/ Return)

(* the join waits on a call that never completes, while a later call has   *)
(* failed                                                                  *)
C7_Witness ==
    /\ pc = "join"
    /\ \E h \in 1..Len(futures) :
          /\ futures[h].state = "hung"
          /\ processed_phrases[join].definition = FutureOf(h)
          /\ \E e \in (h + 1)..Len(futures) : futures[e].state = "failed"

(* C8, as stated.  For an ideographic span with dictionary entries the     *)
(* pinyin is the string of the entries' pinyin, each once, joined with     *)
(* " / ", the definition likewise with " | ", and no request is made.      *)
C8_Original ==
    Returned =>
        \A k \in 1..Len(phrases) :
            (AllIdeographs(phrases[k]) /\ phrases[k] \in DOMAIN entries) =>
                /\ Out[k].pinyin =
                      Str(JoinWith(<<" ", "/", " ">>,
                                   Dedup(entries[phrases[k]], "pinyin", <<>>)))
                /\ Out[k].definition =
                      Str(JoinWith(<<" ", "|", " ">>,
                                   Dedup(entries[phrases[k]], "definition", <<>>)))
                /\ Len(futures) =
                      Cardinality({m \in 1..Len(phrases) : TranslatedAt(m)})

----------------------------------------------------------------------------
(* get_pinyin *)

PinyinCalled == call.fn = "get_pinyin" /\ call.done

HasEntry(phrase) == phrase \in DOMAIN entries /\ entries[phrase] # <<>>

Prefix(phrase, e) == SubSeq(phrase, 1, e)

Rest(phrase, e) == SubSeq(phrase, e + 1, Len(phrase))

(* the prefixes of phrase that have a dictionary entry, by their length *)
EntryPrefixes(phrase) == {e \in 1..Len(phrase) : HasEntry(Prefix(phrase, e))}

Longest(S) == CHOOSE e \in S : \A o \in S : o <= e

RECURSIVE Splits(_)
(* phrase is a concatenation of pieces that each have an entry *)
Splits(phrase) ==
    \/ phrase = <<>>
    \/ \E e \in EntryPrefixes(phrase) : Splits(Rest(phrase, e))

RECURSIVE GreedyPinyin(_)
(* pinyin by longest prefix and no backtracking, as C9 states it *)
GreedyPinyin(phrase) ==
    IF phrase = <<>> THEN Str(<<>>)
    ELSE IF EntryPrefixes(phrase) = {} THEN NoneValue
    ELSE LET e == Longest(EntryPrefixes(phrase))
             rest == GreedyPinyin(Rest(phrase, e))
         IN  IF rest = NoneValue THEN NoneValue
             ELSE Str(entries[Prefix(phrase, e)][1].pinyin \o <<" ">> \o rest.val)

(* C9, as stated.  get_pinyin takes the longest prefix with an entry and   *)
(* resolves the remainder; when the remainder does not resolve the call    *)
(* is absent, with no try of a shorter prefix.                             *)
C9_Original == PinyinCalled => call.ret = GreedyPinyin(call.arg)

(* C9, amended.  get_pinyin is all-or-nothing and tries the prefixes       *)
(* longest first, backtracking: it takes the longest prefix that has an    *)
(* entry and whose remainder resolves, and joins the pinyin of that        *)
(* prefix's first entry, a space and the remainder's result; it is absent  *)
(* only when no prefix with an entry has a remainder that resolves.        *)
C9_LongestResolvable ==
    PinyinCalled =>
        LET phrase == call.arg
            works == {e \in EntryPrefixes(phrase) : Splits(Rest(phrase, e))}
        IN  IF phrase = <<>> THEN call.ret = Str(<<>>)
            ELSE IF works = {} THEN call.ret = NoneValue
            ELSE LET e == Longest(works)
                 IN  /\ call.ret.kind = "str"
                     /\ get_pinyin(entries, Rest(phrase, e)).some
                     /\ call.ret.val =
                           entries[Prefix(phrase, e)][1].pinyin \o <<" ">>
                              \o get_pinyin(entries, Rest(phrase, e)).val

(* a call that gave up the longest prefix with an entry, whose remainder   *)
(* does not resolve, and answered from a shorter one                       *)
C9_Witness ==
    /\ PinyinCalled
    /\ call.ret.kind = "str"
    /\ \E e \in EntryPrefixes(call.arg) :
          /\ e = Longest(EntryPrefixes(call.arg))
          /\ ~Splits(Rest(call.arg, e))

----------------------------------------------------------------------------
(* get_hsk_level *)

(* C10, as stated.  get_hsk_level never raises and never returns None, and *)
(* returns "N/A" when neither the phrase nor a substring of it has a level. *)
C10_Original ==
    (call.fn = "get_hsk_level" /\ call.done) =>
        /\ call.ret.kind = "str"
        /\ (\A a, b \in 1..Len(call.arg) :
               SubSeq(call.arg, a, b) \notin DOMAIN hsk_vocab) =>
              call.ret = Str(NA)

----------------------------------------------------------------------------
(* add_tone *)

ToneCalled == call.fn = "add_tone" /\ call.done

(* the syllable has none of the vowels a, e, o, i, u, u-diaeresis *)
NoVowel(syllable) ==
    \A k \in 1..Len(syllable) : \A v \in 1..Len(VowelPriority) :
        syllable[k] # VowelPriority[v]

HasDigit(syllable) == \E k \in 1..Len(syllable) : syllable[k] \in Digits

(* C11, as stated.  A syllable with none of the vowels, with or without a  *)
(* tone digit, is returned as it is.                                       *)
C11_Original ==
    (ToneCalled /\ NoVowel(call.arg)) => call.ret = Str(call.arg)

(* C11, amended.  For a syllable with none of the vowels add_tone adds no  *)
(* mark and returns the syllable with every digit removed: the input       *)
(* itself exactly when it has no digit.                                    *)
C11_NoVowelDigitsStripped ==
    (ToneCalled /\ NoVowel(call.arg)) =>
        /\ call.ret.kind = "str"
        /\ call.ret.val = SelectSeq(call.arg, LAMBDA c : c \notin Digits)
        /\ call.ret.val = call.arg <=> ~HasDigit(call.arg)

(* a call for a syllable of consonants with two tone digits *)
C11_Witness ==
    /\ ToneCalled
    /\ NoVowel(call.arg)
    /\ \E a, b \in 1..Len(call.arg) :
          a < b /\ call.arg[a] \in Digits /\ call.arg[b] \in Digits
    /\ \E k \in 1..Len(call.arg) : call.arg[k] \in {"m", "r", "E"}

----------------------------------------------------------------------------
(* _load_dictionary *)

LoadCalled == call.fn = "_load_dictionary" /\ call.done

(* what line 79 makes of each line of the drawn files, once stripped *)
Matched == [line \in FileLines |-> match_line(Strip(line))]

(* the line is neither blank nor a comment and has the format of a line *)
WellFormed(line) ==
    LET stripped == Strip(line)
    IN  stripped # <<>> /\ stripped[1] # "#" /\ Matched[line].some

Fields(line) == Matched[line].val

(* the places in the file of the well-formed lines with the key as their   *)
(* traditional or their simplified form, in file order                     *)
ReferencePlaces(file, key) ==
    SelectSeq([k \in 1..Len(file) |-> k],
              LAMBDA k : /\ WellFormed(file[k])
                         /\ key \in {Fields(file[k]).traditional,
                                     Fields(file[k]).simplified})

(* lookup(key) is the list of the entries of the reference places, each    *)
(* with the fields of its line; no list where there is no such line        *)
MatchesReference(file, key) ==
    LET places == ReferencePlaces(file, key)
        found == lookup(entries, key)
    IN  IF places = <<>> THEN ~found.some
        ELSE /\ found.some
             /\ Len(found.val) = Len(places)
             /\ \A j \in 1..Len(places) :
                   /\ found.val[j].traditional = Fields(file[places[j]]).traditional
                   /\ found.val[j].simplified = Fields(file[places[j]]).simplified
                   /\ found.val[j].pinyin_raw = Fields(file[places[j]]).pinyin

(* the keys a lookup is tried with: every form of a line, every key of the *)
(* index, and two keys of no line                                          *)
ProbeKeys(file) ==
    DOMAIN entries
        \cup {Fields(file[k]).traditional : k \in {m \in 1..Len(file) : WellFormed(file[m])}}
        \cup {Fields(file[k]).simplified : k \in {m \in 1..Len(file) : WellFormed(file[m])}}
        \cup {<<"#", "A">>, <<"B", "A">>}

(* C12, as stated.  Whatever the lines of the file, the load ends with the *)
(* index equal to the reference index: for every key, lookup gives the     *)
(* entries of exactly the well-formed lines with that traditional or       *)
(* simplified form, in file order, each once, with the line's fields.      *)
C12_Original ==
    LoadCalled =>
        /\ call.ret # Raised
        /\ \A key \in ProbeKeys(call.arg) : MatchesReference(call.arg, key)

(* Where the load ends without an exception the index is the reference     *)
(* index.                                                                  *)
LoadedIndexIsReference ==
    (LoadCalled /\ call.ret # Raised) =>
        \A key \in ProbeKeys(call.arg) : MatchesReference(call.arg, key)

(* a load that ended with two entries under one key, one of them of a line *)
(* with different forms                                                    *)
LoadedTwoUnderOneKey ==
    /\ LoadCalled
    /\ call.ret # Raised
    /\ \E key \in DOMAIN entries :
          /\ Len(entries[key]) = 2
          /\ entries[key][1].traditional = entries[key][1].simplified
          /\ entries[key][2].traditional # entries[key][2].simplified

----------------------------------------------------------------------------
(* the orchestrator is at, or past, a Future.result() of line 85 *)
Waits ==
    \/ /\ pc = "join"
       /\ join <= Len(processed_phrases)
       /\ NeedsJoin(processed_phrases[join])
    \/ \E h \in 1..Len(futures) : futures[h].joined

(* C13.  The orchestrator waits for a translation only in the loop of line *)
(* 146: whenever it is at or past a wait, every span is consumed and every *)
(* translation request of the call is submitted.                           *)
C13_WaitsOnlyInJoinPass ==
    (pc = "join" \/ Waits) =>
        /\ i > Len(phrases)
        /\ Len(processed_phrases) = Len(phrases)
        /\ Len(futures) = Cardinality({k \in 1..Len(phrases) : TranslatedAt(k)})

(* the orchestrator is suspended on the first of three requests, none of   *)
(* which has completed                                                     *)
C13_Witness ==
    /\ pc = "join"
    /\ join <= Len(processed_phrases)
    /\ NeedsJoin(processed_phrases[join])
    /\ Len(futures) = 3
    /\ \A h \in 1..Len(futures) :
          ~futures[h].joined /\ futures[h].state \in {"queued", "running"}

----------------------------------------------------------------------------
(* get_pinyin: absent, empty and resolved *)

(* C14.  For a phrase that is not empty get_pinyin returns a string        *)
(* exactly when the phrase is a concatenation of pieces that each have an  *)
(* entry, and None otherwise; the string is never the empty one, which is  *)
(* the result for the empty phrase only.                                   *)
C14_ResolvesIffSplits ==
    PinyinCalled =>
        IF call.arg = <<>> THEN call.ret = Str(<<>>)
        ELSE /\ call.ret.kind = "str" <=> Splits(call.arg)
             /\ ~Splits(call.arg) => call.ret = NoneValue
             /\ call.ret # Str(<<>>)

(* a call that returned None for a phrase of the greatest length whose     *)
(* first character and a later one have entries                            *)
C14_Witness ==
    /\ PinyinCalled
    /\ call.ret = NoneValue
    /\ Len(call.arg) = MaxPhraseLen
    /\ HasEntry(Prefix(call.arg, 1))
    /\ \E e \in 2..Len(call.arg) : HasEntry(SubSeq(call.arg, e, e))

RECURSIVE ChosenPinyin(_)
(* the pinyin of the pieces get_pinyin chooses: of the longest prefix with *)
(* an entry whose remainder resolves, then of the pieces of the remainder  *)
ChosenPinyin(phrase) ==
    IF phrase = <<>> THEN <<>>
    ELSE LET e == Longest({p \in EntryPrefixes(phrase) : Splits(Rest(phrase, p))})
         IN  <<entries[Prefix(phrase, e)][1].pinyin>> \o ChosenPinyin(Rest(phrase, e))

(* C15, as stated.  A result that is not None is the pinyin of the chosen  *)
(* pieces with one space between two of them and none before or after;     *)
(* for a phrase that is a key it is the pinyin of the key's first entry.   *)
C15_Original ==
    (PinyinCalled /\ call.ret.kind = "str") =>
        /\ call.ret.val = JoinWith(<<" ">>, ChosenPinyin(call.arg))
        /\ HasEntry(call.arg) => call.ret.val = entries[call.arg][1].pinyin

----------------------------------------------------------------------------
(* process_chinese_text: one phrase per span *)

(* C16.  One phrase is emitted per span: after k spans there are k         *)
(* phrases, and the output has as many phrases as there are spans; at a    *)
(* position whose span is not the terminator the phrase has the span's     *)
(* text, and only at the position of a terminator is there a phrase with   *)
(* is_sentence_end.                                                        *)
C16_OnePhrasePerSpan ==
    /\ Len(processed_phrases) = i - 1
    /\ \A k \in 1..Len(processed_phrases) :
          /\ phrases[k] # Terminator => processed_phrases[k].text = phrases[k]
          /\ processed_phrases[k].is_sentence_end => phrases[k] = Terminator
    /\ Returned =>
          /\ Len(Out) = Len(phrases)
          /\ \A k \in 1..Len(Out) :
                /\ phrases[k] # Terminator => Out[k].text = phrases[k]
                /\ IsSentenceEnd(Out[k]) => phrases[k] = Terminator

(* a returned call with a sentence phrase at a terminator, a terminator    *)
(* that ends no sentence, and a span of whitespace                         *)
C16_Witness ==
    /\ Returned
    /\ \E a, b, c \in 1..Len(Out) :
          /\ IsSentenceEnd(Out[a])
          /\ phrases[b] = Terminator /\ ~IsSentenceEnd(Out[b])
          /\ phrases[c] = <<" ">> /\ Out[c].text = <<" ">>

=============================================================================
